---- MODULE Spec2Model ----
(***************************************************************************)
(* State-machine model of the n00tropic-cerebrum automation utilities:     *)
(*   - the change-driven "frontiers evergreen" validator                   *)
(*     (.dev/automation/scripts/frontiers-evergreen.py);                   *)
(*   - the capability dispatcher (mcp/capabilities_server.py): registry    *)
(*     construction, tool registration and guarded subprocess execution.   *)
(* The utilities do not interact at run time, so each has its own          *)
(* specification over the shared variable list.                            *)
(***************************************************************************)
EXTENDS Integers, Sequences, FiniteSets, TLC

(***************************************************************************)
(* Bounds of the model.                                                    *)
(***************************************************************************)
\* contents the toolchain manifest takes: 1..MaxManifest
MaxManifest == 2
\* contents the catalog takes: 1..MaxCatalog, and Missing (no file)
MaxCatalog == 2
\* capabilities declared in the whole federation: at most MaxCaps
MaxCaps == 2
\* keyword arguments of one capability invocation: at most MaxArgs
MaxArgs == 2
\* workspace health: at most MaxModules declared sub-repositories, at most
\* MaxChanges change lines in a status output, ahead/behind up to MaxCount
MaxModules == 2
MaxChanges == 1
MaxCount == 1
\* the wall clock runs from 0 to MaxClock hours, in steps of TickHours
MaxClock == 24
TickHours == 12

(***************************************************************************)
(* Program constants.                                                      *)
(***************************************************************************)
PYTHON_PROBE_RETENTION_HOURS == 24

VARIABLES
    \* ---- validator: the world it runs in
    files,        \* watch key -> content of the watched file (Missing = no file)
    now,          \* wall clock, hours
    stateFile,    \* STATE_PATH: the persisted WatchState document
    probeDir,     \* PYTHON_PROBE_VENV exists
    \* ---- validator: invocations of main()
    inv,          \* the invocation in hand: arguments, locals and outcome
    prev,         \* the last finished invocation, while no watched file
                  \* has been written since
    \* ---- dispatcher: registry and tool registration
    federation,   \* the federation manifest: its modules, in order
    registryConfig,    \* _registry_config
    registryInstance,  \* _registry_instance
    tools,        \* the tool manager of the FastMCP server: name -> tool
    disc,         \* _discover_and_register: where it is, what is left to do
    \* ---- dispatcher: one capability tool, _run
    environ,      \* os.environ of the dispatcher process
    call,         \* the invocation of _run in hand, with its child process
    \* ---- dispatcher: the argument acceptor of one tool
    acceptor,     \* the validation of one set of arguments against a schema
    \* ---- workspace health reporter (workspace-health.py)
    health,       \* the workspace, the commands issued, the report
    \* ---- agent foundry (n00man)
    agents,       \* docs/agent-registry.json and the scaffold in hand
    \* ---- validator: two invocations at once on one state file
    race          \* the state file and where each invocation is

validatorVars == <<files, now, stateFile, probeDir, inv, prev>>
registryVars == <<federation, registryConfig, registryInstance, tools, disc>>
runVars == <<environ, call>>
utilityVars == <<acceptor, health, agents, race>>
vars == <<validatorVars, registryVars, runVars, utilityVars>>

(***************************************************************************)
(* Validator: data                                                         *)
(***************************************************************************)
WATCH_TARGETS == {"toolchainManifest", "frontiersCatalog"}

Missing == 0
None == 0

\* the toolchain manifest is edited, the catalog is edited, deleted, restored
Contents(key) ==
    IF key = "toolchainManifest" THEN 1..MaxManifest ELSE 0..MaxCatalog

\* sha256(path): None when the file does not exist, else the digest of its
\* content (distinct contents have distinct digests).
Sha256(content) == IF content = Missing THEN None ELSE 100 + content

\* determine_hashes(): one digest per watch target
determine_hashes(fs) == [key \in WATCH_TARGETS |-> Sha256(fs[key])]

NoDigests == [key \in WATCH_TARGETS |-> None]

\* state.get("hashes") or {}  read through  previous.get(key)
PreviousDigest(state, key) ==
    IF state.hashes.present THEN state.hashes.map[key] ELSE None

\* changed_targets(hashes, state)
changed_targets(hashes, state) ==
    {key \in WATCH_TARGETS : hashes[key] # PreviousDigest(state, key)}


(***************************************************************************)
(* Validator: python version strings                                       *)
(* A raw version string is the sequence of its "."-separated tokens: a     *)
(* natural number is a numeric token, NonNumeric a token int() rejects     *)
(* ("12rc1"), EmptyToken the empty token ("3..12").  The empty sequence is *)
(* the absent (or empty) version.                                          *)
(***************************************************************************)
NonNumeric == -1
EmptyToken == -2
NoVersion == <<>>

RECURSIVE _version_tuple(_)
_version_tuple(raw) ==
    IF raw = <<>> THEN <<>>
    ELSE IF Head(raw) = EmptyToken THEN _version_tuple(Tail(raw))
    ELSE IF Head(raw) = NonNumeric THEN <<>>
    ELSE <<Head(raw)>> \o _version_tuple(Tail(raw))

\* Python's tuple comparison a <= b: lexicographic, a proper prefix is smaller
RECURSIVE TupleLeq(_, _)
TupleLeq(a, b) ==
    IF a = <<>> THEN TRUE
    ELSE IF b = <<>> THEN FALSE
    ELSE IF Head(a) # Head(b) THEN Head(a) < Head(b)
    ELSE TupleLeq(Tail(a), Tail(b))

\* toolchains.python.version of the toolchain manifest, by file content
CanonicalOf(content) ==
    CASE content = Missing -> NoVersion
      [] content = 1 -> <<3, 12>>
      [] content = 2 -> <<3, 9>>
      [] OTHER -> NoVersion

\* overrides.python of the dependency-override file, as an invocation finds it
Overrides ==
    { [version |-> NoVersion, allow_lower |-> FALSE],
      [version |-> <<3, 11>>, allow_lower |-> TRUE],
      [version |-> <<3, 11>>, allow_lower |-> FALSE],
      [version |-> <<3, 8, NonNumeric>>, allow_lower |-> TRUE] }

(***************************************************************************)
(* Validator: the environment probe                                        *)
(***************************************************************************)
\* What the probe meets: is uv installed, does requirements.txt exist, which
\* of the four commands (1..4) is the first to exit non-zero (0: none), and
\* whether a failing "uv venv" leaves a partial directory behind.
ProbeOutcomes ==
    { o \in [uv : BOOLEAN, reqs : BOOLEAN, failAt : 0..4, leftover : BOOLEAN] :
        /\ (~o.uv => o.failAt = 0 /\ o.reqs)
        /\ (~o.reqs => o.failAt \in {0, 1, 2})
        /\ (o.leftover => o.uv /\ o.failAt = 2) }

StepNames == <<"install-interpreter", "create-venv", "pip-upgrade", "pip-install">>

\* _run(desc, cmd) appends {"step": desc, "code": returncode}
StepsRun(n, failAt) ==
    [i \in 1..n |-> [step |-> StepNames[i], code |-> IF i = failAt THEN 1 ELSE 0]]

\* _probe_python_requirements: the result record and whether the probe
\* directory exists on return
_probe_python_requirements(o) ==
    IF ~o.uv
    THEN [status |-> "skipped", steps |-> <<>>, dir |-> FALSE]
    ELSE IF o.failAt = 1
    THEN [status |-> "failed", steps |-> StepsRun(1, 1), dir |-> FALSE]
    ELSE IF o.failAt = 2
    THEN [status |-> "failed", steps |-> StepsRun(2, 2), dir |-> o.leftover]
    ELSE IF ~o.reqs
    THEN [status |-> "skipped", steps |-> StepsRun(2, 0), dir |-> FALSE]
    ELSE IF o.failAt = 3
    THEN [status |-> "failed", steps |-> StepsRun(3, 3), dir |-> FALSE]
    ELSE [status |-> IF o.failAt = 4 THEN "failed" ELSE "success",
          steps |-> StepsRun(4, o.failAt), dir |-> FALSE]

\* state["pythonProbe"]: the probe's status with the version pair and the
\* time it was taken (message, log path and step list are not read back)
NoResult == [status |-> "", steps |-> <<>>, dir |-> FALSE]

NoProbe ==
    [present |-> FALSE, status |-> "", timestamp |-> 0,
     canonical |-> NoVersion, override |-> NoVersion, allowLower |-> FALSE]

\* does maybe_probe_python_alignment get past its three early returns
ProbeWanted(canonical, ov) ==
    /\ canonical # NoVersion
    /\ ov.version # NoVersion
    /\ ~TupleLeq(_version_tuple(canonical), _version_tuple(ov.version))
    /\ ov.allow_lower

\* the reuse test as it would be if only the age of the record counted
ProbeCached_by_age_only(state, canonical, ov, t) ==
    /\ state.pythonProbe.present
    /\ t - state.pythonProbe.timestamp < PYTHON_PROBE_RETENTION_HOURS

\* the recorded result is reused: same version pair, younger than 24 hours
ProbeCached(state, canonical, ov, t) ==
    /\ state.pythonProbe.present
    /\ state.pythonProbe.canonical = canonical
    /\ state.pythonProbe.override = ov.version
    /\ t - state.pythonProbe.timestamp < PYTHON_PROBE_RETENTION_HOURS

\* maybe_probe_python_alignment(state): the state dict after the call (it is
\* mutated in place), whether the probe ran, whether save_state was called,
\* and the probe directory afterwards
maybe_probe_python_alignment(state, canonical, ov, t, o, dir) ==
    IF ~ProbeWanted(canonical, ov) \/ ProbeCached(state, canonical, ov, t)
    THEN [state |-> state, ran |-> FALSE, saved |-> FALSE, dir |-> dir,
          result |-> NoResult]
    ELSE LET r == _probe_python_requirements(o)
             summary == [present |-> TRUE, status |-> r.status,
                         timestamp |-> t, canonical |-> canonical,
                         override |-> ov.version, allowLower |-> ov.allow_lower]
         IN [state |-> [state EXCEPT !.pythonProbe = summary],
             ran |-> TRUE, saved |-> TRUE, dir |-> r.dir, result |-> r]


(***************************************************************************)
(* Validator: run_validation and main                                      *)
(***************************************************************************)
\* exit codes of the external validation command
ExitCodes == {0, 1}

\* The persisted document.  Of the run summary only the fields that decide
\* anything are kept; the run id, timestamps, command line, duration,
\* digests and artifact paths are written and never read back.
NoRun == [present |-> FALSE, exitCode |-> 0, status |-> ""]
NoHashes == [present |-> FALSE, map |-> NoDigests]
EmptyState == [hashes |-> NoHashes, lastRun |-> NoRun, pythonProbe |-> NoProbe]

\* load_state(): the document at STATE_PATH ({} when there is none)
load_state(file) == file

\* run_validation as it would be without the returncode test before
\* next_state["hashes"] = hashes
run_validation_always_records(hashes, state, rc) ==
    [state EXCEPT !.lastRun = [present |-> TRUE, exitCode |-> rc,
                               status |-> IF rc = 0 THEN "success" ELSE "failed"],
                  !.hashes = [present |-> TRUE, map |-> hashes]]

\* run_validation as it would be without next_state["hashes"] = hashes
run_validation_never_records(hashes, state, rc) ==
    [state EXCEPT !.lastRun = [present |-> TRUE, exitCode |-> rc,
                               status |-> IF rc = 0 THEN "success" ELSE "failed"]]

\* run_validation(args, hashes, state) with the command exiting rc: the
\* document handed to save_state
run_validation(hashes, state, rc) ==
    LET summary == [present |-> TRUE, exitCode |-> rc,
                    status |-> IF rc = 0 THEN "success" ELSE "failed"]
        next_state == [state EXCEPT !.lastRun = summary]
    IN IF rc = 0
       THEN [next_state EXCEPT !.hashes = [present |-> TRUE, map |-> hashes]]
       ELSE next_state

\* ensure_prereqs(): every watch target exists
ensure_prereqs(fs) == \A key \in WATCH_TARGETS : fs[key] # Missing

\* needs_run as it would be if a failed last run also asked for a run
needs_run_after_failure(changed, force, state) ==
    changed # {} \/ force \/ ~state.lastRun.present \/ state.lastRun.exitCode # 0

\* needs_run = bool(changed) or args.force or not state.get("lastRun")
needs_run(changed, force, state) ==
    changed # {} \/ force \/ ~state.lastRun.present

\* what main() has done when it returns
Outcome(file, dir, exitCode, hashed, hashes, changed, probe, ranValidation, status) ==
    [file |-> file, dir |-> dir, exitCode |-> exitCode, hashed |-> hashed,
     hashes |-> hashes, changed |-> changed, ranProbe |-> probe.ran,
     probeResult |-> probe.result, ranValidation |-> ranValidation,
     status |-> status]

\* main() from maybe_probe_python_alignment's return on: `probe` is what the
\* probe call returned, `file` the document on disk after it
main_decide(file, fs, probe, force, checkOnly, rc) ==
    LET state == probe.state
        hashes == determine_hashes(fs)
        changed == changed_targets(hashes, state)
        needs == needs_run(changed, force, state)
    IN IF checkOnly
       THEN Outcome(file, probe.dir, 0, TRUE, hashes, changed, probe, FALSE,
                    IF needs THEN "needs-run" ELSE "clean")
       ELSE IF ~needs /\ ~force
       THEN Outcome(file, probe.dir, 0, TRUE, hashes, changed, probe, FALSE,
                    "skipped")
       ELSE Outcome(run_validation(hashes, state, rc), probe.dir, rc, TRUE,
                    hashes, changed, probe, TRUE,
                    IF rc = 0 THEN "success" ELSE "failed")

\* main(): everything one invocation does, from the document and files it
\* finds, its flags, the override entry, what the probe meets and the exit
\* code the validation command returns when it is run.
main(file, fs, t, dir, force, checkOnly, ov, o, rc) ==
    IF ~ensure_prereqs(fs)
    THEN Outcome(file, dir, 1, FALSE, NoDigests, {},
                 [ran |-> FALSE, result |-> NoResult], FALSE, "aborted")
    ELSE LET probe == maybe_probe_python_alignment(
                          load_state(file), CanonicalOf(fs["toolchainManifest"]),
                          ov, t, o, dir)
         IN main_decide(IF probe.saved THEN probe.state ELSE file,
                        fs, probe, force, checkOnly, rc)

Idle ==
    [pc |-> "idle", force |-> FALSE, checkOnly |-> FALSE,
     override |-> [version |-> NoVersion, allow_lower |-> FALSE],
     before |-> EmptyState,
     out |-> Outcome(EmptyState, FALSE, 0, FALSE, NoDigests, {},
                     [ran |-> FALSE, result |-> NoResult], FALSE, "")]

NoPrev == [failedRun |-> FALSE, changed |-> FALSE]

ValidatorInit ==
    /\ files = [key \in WATCH_TARGETS |-> 1]
    /\ now = 0
    /\ stateFile = EmptyState
    /\ probeDir = FALSE
    /\ inv = Idle
    /\ prev = NoPrev

(***************************************************************************)
(* Validator: actions                                                      *)
(***************************************************************************)
\* python frontiers-evergreen.py [--force] [--check-only], start to exit
Invoke(force, checkOnly, ov) ==
    /\ inv.pc = "idle"
    /\ \E r \in {main(stateFile, files, now, probeDir, force, checkOnly, ov, o, rc) :
                     o \in ProbeOutcomes, rc \in ExitCodes} :
          /\ stateFile' = r.file
          /\ probeDir' = r.dir
          /\ inv' = [pc |-> "done", force |-> force, checkOnly |-> checkOnly,
                     override |-> ov, before |-> stateFile, out |-> r]
    /\ UNCHANGED <<files, now, prev, registryVars, runVars, utilityVars>>

\* the process is gone; what it did is remembered for the next invocation
Exit ==
    /\ inv.pc = "done"
    /\ inv' = Idle
    /\ prev' = IF inv.out.ranValidation /\ inv.out.exitCode # 0
               THEN [failedRun |-> TRUE, changed |-> inv.out.changed # {}]
               ELSE NoPrev
    /\ UNCHANGED <<files, now, stateFile, probeDir, registryVars, runVars, utilityVars>>

\* somebody writes, deletes or restores a watched file
EditFile(key, content) ==
    /\ inv.pc = "idle"
    /\ files[key] # content
    /\ files' = [files EXCEPT ![key] = content]
    /\ prev' = NoPrev
    /\ UNCHANGED <<now, stateFile, probeDir, inv, registryVars, runVars, utilityVars>>

\* time passes
Tick ==
    /\ inv.pc = "idle"
    /\ now + TickHours <= MaxClock
    /\ now' = now + TickHours
    /\ UNCHANGED <<files, stateFile, probeDir, inv, prev, registryVars, runVars, utilityVars>>

ValidatorNext ==
    \/ \E force \in BOOLEAN, checkOnly \in BOOLEAN, ov \in Overrides :
          Invoke(force, checkOnly, ov)
    \/ Exit
    \/ \E key \in WATCH_TARGETS : \E content \in Contents(key) :
          EditFile(key, content)
    \/ Tick

(***************************************************************************)
(* Validator: properties                                                   *)
(***************************************************************************)
Done == inv.pc = "done"
Plain == ~inv.force /\ ~inv.checkOnly

\* every watch target's digest is the one the persisted document held when
\* the invocation started (hashes are only ever recorded by a successful run)
DigestsAsRecorded ==
    /\ inv.before.hashes.present
    /\ determine_hashes(files) = inv.before.hashes.map

\* C1: an invocation without --force and without --check-only that finds
\* every watch target's digest equal to the digest recorded by the last
\* successful run does not invoke the validation command and exits 0.
C1_UnchangedIsSkipped ==
    (Done /\ Plain /\ DigestsAsRecorded)
        => (~inv.out.ranValidation /\ inv.out.exitCode = 0)

\* C1 witness: such an invocation has returned, and the last validation run
\* before it was a failed one
C1_Witness ==
    /\ Done /\ Plain /\ DigestsAsRecorded
    /\ inv.before.lastRun.status = "failed"
    /\ inv.out.status = "skipped"

\* C2: after a validation run that exits 0 the persisted hashes are exactly
\* the digests this invocation computed; after one that exits non-zero the
\* persisted hashes are what they were before the invocation, the run is
\* recorded in lastRun, and nothing else of the document differs from before
\* (but for the probe record when this invocation's probe ran).
C2_HashesFollowExitCode ==
    (Done /\ inv.out.ranValidation) =>
        /\ stateFile.lastRun.present
        /\ stateFile.lastRun.exitCode = inv.out.exitCode
        /\ IF inv.out.exitCode = 0
           THEN /\ stateFile.hashes.present
                /\ stateFile.hashes.map = inv.out.hashes
                /\ inv.out.hashes = determine_hashes(files)
           ELSE /\ stateFile.hashes = inv.before.hashes
                /\ (~inv.out.ranProbe =>
                       stateFile.pythonProbe = inv.before.pythonProbe)

\* C2 witness: a run over changed digests has failed, with hashes on record
C2_Witness ==
    /\ Done /\ inv.out.ranValidation /\ inv.out.exitCode # 0
    /\ inv.before.hashes.present
    /\ inv.before.hashes.map # inv.out.hashes

\* C3 (as claimed): an invocation with --check-only leaves the persisted
\* document as it found it and runs neither the probe nor the validation.
C3_CheckOnlyChangesNothing ==
    (Done /\ inv.checkOnly) =>
        /\ stateFile = inv.before
        /\ ~inv.out.ranProbe
        /\ ~inv.out.ranValidation

\* C4 (as claimed): when the last invocation ran the validation command and
\* it failed, the next invocation without --force and --check-only, the watch
\* targets not written in between, runs the validation command again.
C4_FailedRunIsRetried ==
    (Done /\ Plain /\ prev.failedRun) => inv.out.ranValidation

\* C4 (amended): it does when the failed run had a changed watch target (it
\* was not run for --force alone).
C4_FailedChangedRunIsRetried ==
    (Done /\ Plain /\ prev.failedRun /\ prev.changed) => inv.out.ranValidation

\* C4 witness: the invocation after a failed run over changed targets has
\* returned
C4_Witness ==
    /\ Done /\ Plain /\ prev.failedRun /\ prev.changed
    /\ inv.before.lastRun.status = "failed"
    /\ inv.out.ranValidation


\* the version pair this invocation read, and the pair of the probe record
\* it found in the persisted document
Canonical == CanonicalOf(files["toolchainManifest"])
SamePairRecorded ==
    /\ inv.before.pythonProbe.present
    /\ inv.before.pythonProbe.canonical = Canonical
    /\ inv.before.pythonProbe.override = inv.override.version
Elapsed == now - inv.before.pythonProbe.timestamp

\* C16: while the canonical and override versions stay the same the probe is
\* executed at most once in any 24-hour window: an invocation made less than
\* 24 hours after a recorded probe for the same (canonical, override) pair
\* reuses the record and runs no probe command; when either version differs
\* from the recorded pair (and the probe applies) the probe runs again,
\* however little time has passed.
C16_ProbeOncePerDay ==
    (Done /\ inv.out.hashed) =>
        /\ (SamePairRecorded /\ Elapsed < PYTHON_PROBE_RETENTION_HOURS) =>
              /\ ~inv.out.ranProbe
              /\ stateFile.pythonProbe = inv.before.pythonProbe
        /\ (ProbeWanted(Canonical, inv.override) /\ ~SamePairRecorded) =>
              inv.out.ranProbe
        /\ inv.out.ranProbe =>
              /\ stateFile.pythonProbe.present
              /\ stateFile.pythonProbe.timestamp = now
              /\ stateFile.pythonProbe.canonical = Canonical
              /\ stateFile.pythonProbe.override = inv.override.version

\* twelve hours after a probe for the same pair: the record is reused
C16_Witness ==
    /\ Done /\ inv.out.hashed
    /\ ProbeWanted(Canonical, inv.override)
    /\ SamePairRecorded
    /\ Elapsed > 0 /\ Elapsed < PYTHON_PROBE_RETENTION_HOURS
    /\ ~inv.out.ranProbe

\* C17 (as claimed): whenever the installer tool (uv) or the requirements
\* file is missing, the status the probe records is "skipped", never
\* "failed", whatever the outcome of the other probe steps.
C17_MissingToolOrFileIsSkipped ==
    \A o \in ProbeOutcomes :
        (Done /\ inv.out.ranProbe /\ inv.out.probeResult = _probe_python_requirements(o)
              /\ (~o.uv \/ ~o.reqs))
            => stateFile.pythonProbe.status = "skipped"

\* the steps of a probe result, by name, in the order run
StepsOf(result) == [i \in DOMAIN result.steps |-> result.steps[i].step]
IsPrefix(a, b) == Len(a) <= Len(b) /\ a = SubSeq(b, 1, Len(a))

\* C18 (as claimed): the probe's steps run in the order install interpreter,
\* create isolated environment, upgrade installer, install dependencies;
\* when a step fails no later step is executed, and the ephemeral environment
\* directory does not exist when the probe returns.
C18_StepsInOrderAndCleanedUp ==
    (Done /\ inv.out.ranProbe) =>
        LET r == inv.out.probeResult
        IN /\ IsPrefix(StepsOf(r), StepNames)
           /\ \A i \in DOMAIN r.steps : r.steps[i].code # 0 => i = Len(r.steps)
           /\ ~probeDir

(***************************************************************************)
(* Dispatcher: manifests                                                   *)
(* A capability identifier is the sequence of its characters.  A           *)
(* capability is what its manifest says of it: the identifier and whether  *)
(* it is enabled for tool exposure.  A module of the federation manifest   *)
(* has an id, the includeInRoot flag and its capabilities in order.        *)
(***************************************************************************)
CapIds == { <<"a", ".", "b">>, <<"a", "_", "b">>, <<"c">> }
Capabilities == [id : CapIds, enabled : BOOLEAN]
ModuleIds == <<"alpha", "beta">>

RECURSIVE SeqsUpTo(_, _)
SeqsUpTo(S, n) ==
    IF n = 0 THEN {<<>>}
    ELSE LET shorter == SeqsUpTo(S, n - 1)
         IN shorter \cup {Append(q, x) : q \in {t \in shorter : Len(t) = n - 1}, x \in S}

\* the federation manifests the model starts from
Federations ==
    { <<[id |-> ModuleIds[1], includeInRoot |-> i1, caps |-> c1],
        [id |-> ModuleIds[2], includeInRoot |-> i2, caps |-> c2]>> :
        i1 \in BOOLEAN, i2 \in BOOLEAN,
        c1 \in SeqsUpTo(Capabilities, MaxCaps),
        c2 \in SeqsUpTo(Capabilities, MaxCaps) }

FederationsInBound ==
    {f \in Federations : Len(f[1].caps) + Len(f[2].caps) <= MaxCaps}

\* CapabilityManifest.enabled_capabilities(): the capabilities of a manifest
\* for which is_mcp_enabled() holds, in manifest order
manifest_enabled_capabilities(caps) == SelectSeq(caps, LAMBDA cap : cap.enabled)

(***************************************************************************)
(* Dispatcher: ModuleRegistry                                              *)
(***************************************************************************)
\* the inner loop of _assert_unique_capabilities over one module's enabled
\* capabilities: the seen set afterwards, and whether it raised
RECURSIVE ScanCaps(_, _)
ScanCaps(caps, seen) ==
    IF caps = <<>> THEN [seen |-> seen, raised |-> FALSE]
    ELSE IF Head(caps).id \in seen THEN [seen |-> seen, raised |-> TRUE]
    ELSE ScanCaps(Tail(caps), seen \cup {Head(caps).id})

RECURSIVE ScanModules(_, _)
ScanModules(modules, seen) ==
    IF modules = <<>> THEN FALSE
    ELSE LET r == ScanCaps(manifest_enabled_capabilities(Head(modules).caps), seen)
         IN r.raised \/ ScanModules(Tail(modules), r.seen)

\* the same loops with `seen` started afresh for every module
RECURSIVE ScanModulesSeenPerModule(_, _)
ScanModulesSeenPerModule(modules, seen) ==
    IF modules = <<>> THEN FALSE
    ELSE \/ ScanCaps(manifest_enabled_capabilities(Head(modules).caps), {}).raised
         \/ ScanModulesSeenPerModule(Tail(modules), seen)

\* _assert_unique_capabilities as it would be with `seen` per module
_assert_unique_capabilities_per_module(modules) ==
    ScanModulesSeenPerModule(modules, {})

\* ModuleRegistry._assert_unique_capabilities(): TRUE when it raises
_assert_unique_capabilities(modules) == ScanModules(modules, {})

\* ModuleRegistry.__init__(modules, federation): the registry or the error
ModuleRegistry(modules) ==
    IF modules = <<>>
    THEN [ok |-> FALSE, error |-> "No modules available", modules |-> <<>>]
    ELSE IF _assert_unique_capabilities(modules)
    THEN [ok |-> FALSE, error |-> "Capability id defined in multiple modules",
          modules |-> <<>>]
    ELSE [ok |-> TRUE, error |-> "", modules |-> modules]

ModuleIdsOf(fed) == {fed[i].id : i \in DOMAIN fed}

\* RegistryConfig: the mode and the module filter (None or a set of ids)
NoFilter == [given |-> FALSE, ids |-> {}]
Filter(ids) == [given |-> TRUE, ids |-> ids]
RegistryConfigs ==
    { [mode |-> "single", module_filter |-> NoFilter] } \cup
    { [mode |-> "federation", module_filter |-> f] :
        f \in {NoFilter, Filter({}), Filter({"alpha"}), Filter({"alpha", "beta"}),
               Filter({"beta", "ghost"})} }

\* from_config as it would be if a filtered module also had to be flagged
\* for default inclusion
from_config_filter_and_include(config, fed) ==
    IF config.mode = "single"
    THEN ModuleRegistry(<<[fed[1] EXCEPT !.includeInRoot = TRUE]>>)
    ELSE LET filtered == config.module_filter.given /\ config.module_filter.ids # {}
             filter_ids == config.module_filter.ids
         IN IF filtered /\ filter_ids \ ModuleIdsOf(fed) # {}
            THEN [ok |-> FALSE, error |-> "Unknown module ids in filter",
                  modules |-> <<>>]
            ELSE ModuleRegistry(
                     SelectSeq(fed, LAMBDA m : /\ filtered => m.id \in filter_ids
                                               /\ m.includeInRoot))

\* ModuleRegistry.from_config(config, repo_root).  In single mode the one
\* manifest loaded is that of the first module of the federation.
from_config(config, fed) ==
    IF config.mode = "single"
    THEN ModuleRegistry(<<[fed[1] EXCEPT !.includeInRoot = TRUE]>>)
    ELSE LET filtered == config.module_filter.given /\ config.module_filter.ids # {}
             filter_ids == config.module_filter.ids
         IN IF filtered /\ filter_ids \ ModuleIdsOf(fed) # {}
            THEN [ok |-> FALSE, error |-> "Unknown module ids in filter",
                  modules |-> <<>>]
            ELSE ModuleRegistry(
                     SelectSeq(fed, LAMBDA m : IF filtered THEN m.id \in filter_ids
                                                ELSE m.includeInRoot))

\* _registry_instance: None, or the ModuleRegistry object; `builds` tells the
\* objects apart: it is the number of registries constructed and cached
\* since the configuration was last set
NoInstance == [present |-> FALSE, modules |-> <<>>, builds |-> 0]

\* _registry(): the instance cached afterwards and what the call gave back
_registry(instance, config, fed) ==
    IF instance.present
    THEN [instance |-> instance, ok |-> TRUE, modules |-> instance.modules]
    ELSE LET built == from_config(config, fed)
         IN IF built.ok
            THEN [instance |-> [present |-> TRUE, modules |-> built.modules,
                                builds |-> instance.builds + 1],
                  ok |-> TRUE, modules |-> built.modules]
            ELSE [instance |-> NoInstance, ok |-> FALSE, modules |-> <<>>]

\* ModuleRegistry.enabled_capabilities(): (module, capability) pairs in order
RECURSIVE enabled_capabilities(_)
enabled_capabilities(modules) ==
    IF modules = <<>> THEN <<>>
    ELSE LET m == Head(modules)
             caps == manifest_enabled_capabilities(m.caps)
         IN [i \in 1..Len(caps) |-> [module |-> m.id, cap |-> caps[i]]]
            \o enabled_capabilities(Tail(modules))

(***************************************************************************)
(* Dispatcher: tool registration                                           *)
(***************************************************************************)
\* tool_name = cap_id.replace(".", "_")
tool_name(cap_id) ==
    [i \in 1..Len(cap_id) |-> IF cap_id[i] = "." THEN "_" ELSE cap_id[i]]

ToolNames(ts) == {t.name : t \in ts}

\* _register_capability(module, cap) on the tool manager `ts`: add_tool keeps
\* the tool already registered under the name and returns it; the tool found
\* under the name then gets this capability's schema and argument model.
_register_capability(ts, module, cap) ==
    LET name == tool_name(cap.id)
        run == [module |-> module, cap_id |-> cap.id]
    IN IF name \in ToolNames(ts)
       THEN {IF t.name = name THEN [t EXCEPT !.parameters = run] ELSE t : t \in ts}
       ELSE ts \cup {[name |-> name, fn |-> run, parameters |-> run]}

DiscInit == [pc |-> "init", queue |-> <<>>]

RegistryInit ==
    /\ federation \in FederationsInBound
    /\ registryConfig = [mode |-> "federation", module_filter |-> NoFilter]
    /\ registryInstance = NoInstance
    /\ tools = {}
    /\ disc = DiscInit

\* configure_registry as it would be if it kept the instance built so far
configure_registry_keeps_instance(config) ==
    /\ disc.pc = "init"
    /\ registryConfig' = config
    /\ UNCHANGED <<federation, registryInstance, tools, disc, validatorVars, runVars, utilityVars>>

\* configure_registry(config)
configure_registry(config) ==
    /\ disc.pc = "init"
    /\ registryConfig' = config
    /\ registryInstance' = NoInstance
    /\ UNCHANGED <<federation, tools, disc, validatorVars, runVars, utilityVars>>

\* a caller outside registration (list_capabilities, list_modules_metadata,
\* list_modules_health) asks for the registry
RegistryCall ==
    /\ disc.pc = "init"
    /\ registryInstance' = _registry(registryInstance, registryConfig, federation).instance
    /\ UNCHANGED <<federation, registryConfig, tools, disc, validatorVars, runVars, utilityVars>>

\* _discover_and_register() up to its loop: _enabled_caps() builds the
\* registry if there is none and lists the enabled capabilities
Discover ==
    /\ disc.pc = "init"
    /\ \E r \in {_registry(registryInstance, registryConfig, federation)} :
          /\ registryInstance' = r.instance
          /\ disc' = IF r.ok
                     THEN [pc |-> "registering", queue |-> enabled_capabilities(r.modules)]
                     ELSE [pc |-> "raised", queue |-> <<>>]
    /\ UNCHANGED <<federation, registryConfig, tools, validatorVars, runVars, utilityVars>>

\* one turn of the loop: _register_capability(module, cap)
Register ==
    /\ disc.pc = "registering"
    /\ disc.queue # <<>>
    /\ tools' = _register_capability(tools, Head(disc.queue).module, Head(disc.queue).cap)
    /\ disc' = [disc EXCEPT !.queue = Tail(disc.queue)]
    /\ UNCHANGED <<federation, registryConfig, registryInstance, validatorVars, runVars, utilityVars>>

\* the loop is over: _discover_and_register returns
Registered ==
    /\ disc.pc = "registering"
    /\ disc.queue = <<>>
    /\ disc' = [disc EXCEPT !.pc = "done"]
    /\ UNCHANGED <<federation, registryConfig, registryInstance, tools, validatorVars, runVars, utilityVars>>

RegistryNext ==
    \/ \E config \in RegistryConfigs : configure_registry(config)
    \/ RegistryCall
    \/ Discover
    \/ Register
    \/ Registered

RegistryIdle ==
    /\ federation = <<>>
    /\ registryConfig = [mode |-> "federation", module_filter |-> NoFilter]
    /\ registryInstance = NoInstance
    /\ tools = {}
    /\ disc = DiscInit

(***************************************************************************)
(* Dispatcher: properties of the registry                                  *)
(***************************************************************************)
\* the capabilities of `modules` as (module position, capability position)
Declared(modules) ==
    UNION {{<<m, c>> : c \in DOMAIN modules[m].caps} : m \in DOMAIN modules}

CapAt(modules, at) == modules[at[1]].caps[at[2]]

\* two capabilities of the modules, both enabled, share an identifier
EnabledCollision(modules) ==
    \E x \in Declared(modules), y \in Declared(modules) :
        /\ x # y
        /\ CapAt(modules, x).enabled /\ CapAt(modules, y).enabled
        /\ CapAt(modules, x).id = CapAt(modules, y).id

\* two capabilities of the modules, enabled or not, share an identifier
AnyCollision(modules) ==
    \E x \in Declared(modules), y \in Declared(modules) :
        x # y /\ CapAt(modules, x).id = CapAt(modules, y).id

\* C5: in every execution of _discover_and_register, a tool is registered
\* (and the registration loop is entered) only after the registry has been
\* constructed, its uniqueness check over all loaded modules passed: the
\* loaded modules then hold no two enabled capabilities with one identifier;
\* and when construction raises, no tool is registered.
C5_NoToolBeforeUniquenessCheck ==
    /\ (tools # {} \/ disc.pc \in {"registering", "done"}) =>
           /\ registryInstance.present
           /\ ~EnabledCollision(registryInstance.modules)
    /\ disc.pc = "raised" => (tools = {} /\ ~registryInstance.present)

\* C5 witness: both modules are loaded, each is collision-free alone, they
\* share an enabled identifier, and _discover_and_register has raised
C5_Witness ==
    /\ disc.pc = "raised"
    /\ registryConfig.mode = "federation"
    /\ registryConfig.module_filter = Filter({"alpha", "beta"})
    /\ EnabledCollision(federation)
    /\ ~EnabledCollision(<<federation[1]>>)
    /\ ~EnabledCollision(<<federation[2]>>)
    /\ tools = {}

\* C6 (as claimed): in every constructed ModuleRegistry the identifiers of
\* all capabilities of all loaded modules, enabled or not, are pairwise
\* distinct.
C6_AllIdentifiersDistinct ==
    registryInstance.present => ~AnyCollision(registryInstance.modules)

\* the filter of the configuration in force: the ids given with --module (an
\* empty set of ids is no filter: `config.module_filter or None`)
HasFilter == registryConfig.module_filter.given /\ registryConfig.module_filter.ids # {}
FilterIds == registryConfig.module_filter.ids

\* the modules the claim expects to be loaded
ModulesByFilter == SelectSeq(federation, LAMBDA m : m.id \in FilterIds)
ModulesByInclusion == SelectSeq(federation, LAMBDA m : m.includeInRoot)

\* C12: in federation mode, with a filter construction fails if a filter id
\* matches no module of the federation manifest, and otherwise exactly the
\* modules whose id is in the filter are loaded, whatever their inclusion
\* flag; without a filter exactly the modules flagged for default inclusion
\* are loaded; when the resulting set is empty construction fails.
C12_FilterDeterminesLoadedModules ==
    registryConfig.mode = "federation" =>
        /\ (HasFilter /\ FilterIds \ ModuleIdsOf(federation) # {}) =>
               ~registryInstance.present
        /\ (registryInstance.present /\ HasFilter) =>
               registryInstance.modules = ModulesByFilter
        /\ (registryInstance.present /\ ~HasFilter) =>
               registryInstance.modules = ModulesByInclusion
        /\ (IF HasFilter THEN ModulesByFilter ELSE ModulesByInclusion) = <<>> =>
               ~registryInstance.present
        /\ disc.pc = "raised" =>
               \/ HasFilter /\ FilterIds \ ModuleIdsOf(federation) # {}
               \/ (IF HasFilter THEN ModulesByFilter ELSE ModulesByInclusion) = <<>>
               \/ EnabledCollision(IF HasFilter THEN ModulesByFilter
                                   ELSE ModulesByInclusion)

\* a filter names a module that is not flagged for default inclusion, and
\* the registry is constructed with exactly that module
C12_Witness ==
    /\ registryConfig.mode = "federation"
    /\ registryConfig.module_filter = Filter({"alpha"})
    /\ ~federation[1].includeInRoot /\ federation[2].includeInRoot
    /\ registryInstance.present
    /\ registryInstance.modules = <<federation[1]>>

\* a filter with an id that matches no module: construction has failed
C12_WitnessUnknownId ==
    /\ registryConfig.module_filter = Filter({"beta", "ghost"})
    /\ disc.pc = "raised"

\* C24: the process-wide registry is built lazily and at most once per
\* configuration: after any sequence of configure_registry and _registry
\* calls, the cached instance (which is what _registry returns) was
\* constructed from the configuration set last; calls of _registry with no
\* configure_registry in between keep the one instance without constructing
\* another; and a construction that raises leaves no instance cached, so
\* that the next call constructs again.
C24_BuiltOncePerConfiguration ==
    LET built == from_config(registryConfig, federation)
    IN /\ registryInstance.present =>
             (built.ok /\ registryInstance.modules = built.modules)
       /\ registryInstance.builds = (IF registryInstance.present THEN 1 ELSE 0)
       /\ ~built.ok => ~registryInstance.present
       /\ disc.pc \in {"registering", "done"} => registryInstance.present
       /\ disc.pc = "raised" => ~registryInstance.present

\* a registry built under a configuration other than the initial one, with
\* other modules than the initial configuration gives, and in use
C24_Witness ==
    /\ registryInstance.present
    /\ disc.pc = "done"
    /\ registryConfig # [mode |-> "federation", module_filter |-> NoFilter]
    /\ LET initial == from_config([mode |-> "federation", module_filter |-> NoFilter],
                                  federation)
       IN initial.ok /\ initial.modules # registryInstance.modules

\* the function and schema _register_capability binds for an entry of
\* enabled_capabilities()
RunOf(entry) == [module |-> entry.module, cap_id |-> entry.cap.id]

\* C23 (as claimed): every enabled capability is registered as its own
\* tool: once _discover_and_register has returned, any two enabled
\* capabilities of the registry with distinct identifiers have two distinct
\* tools, each running its own capability's command under its guardrails
\* and carrying its own input schema.
C23_EachCapabilityItsOwnTool ==
    disc.pc = "done" =>
        LET caps == enabled_capabilities(registryInstance.modules)
        IN \A i \in DOMAIN caps, j \in DOMAIN caps :
              caps[i].cap.id # caps[j].cap.id =>
                 \E t1 \in tools, t2 \in tools :
                    /\ t1 # t2
                    /\ t1.fn = RunOf(caps[i]) /\ t1.parameters = RunOf(caps[i])
                    /\ t2.fn = RunOf(caps[j]) /\ t2.parameters = RunOf(caps[j])

(***************************************************************************)
(* Dispatcher: the guarded subprocess, _run                                *)
(* Names (of arguments and of environment variables) are sequences of      *)
(* characters, with "INPUT_" and the fixed variable names written as one   *)
(* element; values are sequences of text pieces.                           *)
(***************************************************************************)
Lower == {"a", "b"}
UpperCase == {"A", "B"}
Digits == {"1"}
AlNum == Lower \cup UpperCase \cup Digits

ToUpper(ch) == CASE ch = "a" -> "A" [] ch = "b" -> "B" [] OTHER -> ch

\* re.sub(r"[^0-9a-zA-Z]+", "_", name)
RECURSIVE SquashNonAlnum(_)
SquashNonAlnum(name) ==
    IF name = <<>> THEN <<>>
    ELSE IF Head(name) \in AlNum THEN <<Head(name)>> \o SquashNonAlnum(Tail(name))
    ELSE IF Len(name) > 1 /\ name[2] \notin AlNum THEN SquashNonAlnum(Tail(name))
    ELSE <<"_">> \o SquashNonAlnum(Tail(name))

\* re.sub(r"([a-z0-9])([A-Z])", r"\1_\2", s)
RECURSIVE SplitCamel(_)
SplitCamel(name) ==
    IF Len(name) < 2 THEN name
    ELSE IF Head(name) \in Lower \cup Digits /\ name[2] \in UpperCase
    THEN <<Head(name), "_">> \o SplitCamel(Tail(name))
    ELSE <<Head(name)>> \o SplitCamel(Tail(name))

\* str.strip("_")
RECURSIVE StripLeft(_)
StripLeft(name) ==
    IF name # <<>> /\ Head(name) = "_" THEN StripLeft(Tail(name)) ELSE name

RECURSIVE StripRight(_)
StripRight(name) ==
    IF name # <<>> /\ name[Len(name)] = "_"
    THEN StripRight(SubSeq(name, 1, Len(name) - 1)) ELSE name

\* _to_upper_snake(name)
_to_upper_snake(name) ==
    LET s == SplitCamel(SquashNonAlnum(name))
        upper == [i \in 1..Len(s) |-> ToUpper(s[i])]
    IN StripLeft(StripRight(upper))

\* keyword arguments: (name, value) pairs in call order, names distinct; a
\* value is its type and its text
ArgNames == { <<"a", "B">>, <<"a", "_", "b">>, <<"a", "b">> }
ArgValues == { [type |-> "str", text |-> "1"], [type |-> "int", text |-> "2"] }
Args == [name : ArgNames, value : ArgValues]
Kwargs ==
    {kw \in SeqsUpTo(Args, MaxArgs) :
        \A i \in DOMAIN kw, j \in DOMAIN kw : i # j => kw[i].name # kw[j].name}

\* str(value)
Str(value) == <<value.text>>

\* json.dumps(value), json.dumps(kwargs)
JsonValue(value) ==
    IF value.type = "str" THEN <<"\"", value.text, "\"">> ELSE <<value.text>>

RECURSIVE JsonMembers(_)
JsonMembers(kw) ==
    IF kw = <<>> THEN <<>>
    ELSE <<"\"">> \o Head(kw).name \o <<"\"", ": ">> \o JsonValue(Head(kw).value)
         \o (IF Len(kw) > 1 THEN <<", ">> ELSE <<>>) \o JsonMembers(Tail(kw))

JsonDumps(kw) == <<"{">> \o JsonMembers(kw) \o <<"}">>

\* environment variable names and the process environments of the model
HOME == <<"HOME">>
SECRET == <<"SECRET">>
INPUT_AB == <<"INPUT_", "A", "B">>
EnvNames == {HOME, SECRET, INPUT_AB}
EnvValues(name) == IF name = INPUT_AB THEN {<<"x">>} ELSE {<<"x">>, <<"y">>}
Environs ==
    UNION {{e \in [names -> {<<"x">>, <<"y">>}] : \A k \in names : e[k] \in EnvValues(k)} :
              names \in SUBSET EnvNames}

\* guardrails: allowed_env and allowed_exit_codes (max_runtime_seconds is the
\* deadline whose passing is the Timeout step)
SIGKILLED == -9
ChildExitCodes == {0, 2}
Guardrails ==
    [allowed_env : {{}, {HOME}, {HOME, INPUT_AB}},
     allowed_exit_codes : {{0}, {0, 2}, {0, SIGKILLED}}]

\* env[key] = value
Put(env, key, value) ==
    [k \in DOMAIN env \cup {key} |-> IF k = key THEN value ELSE env[k]]

\* for key, value in kwargs.items(): env[f"INPUT_{_to_upper_snake(key)}"] = str(value)
RECURSIVE PutInputs(_, _)
PutInputs(env, kw) ==
    IF kw = <<>> THEN env
    ELSE PutInputs(Put(env, <<"INPUT_">> \o _to_upper_snake(Head(kw).name),
                       Str(Head(kw).value)),
                   Tail(kw))

\* the five variables _run always sets
Injected(kw) ==
    [k \in {<<"WORKSPACE_ROOT">>, <<"CAPABILITY_ID">>, <<"CAPABILITY_MODULE">>,
            <<"CAPABILITY_MANIFEST">>, <<"CAPABILITY_INPUTS">>} |->
        CASE k = <<"WORKSPACE_ROOT">> -> <<"REPO_ROOT">>
          [] k = <<"CAPABILITY_ID">> -> <<"cap_id">>
          [] k = <<"CAPABILITY_MODULE">> -> <<"module.id">>
          [] k = <<"CAPABILITY_MANIFEST">> -> <<"manifest_path">>
          [] OTHER -> JsonDumps(kw)]

Overlay(env, over) ==
    [k \in DOMAIN env \cup DOMAIN over |-> IF k \in DOMAIN over THEN over[k] ELSE env[k]]

\* the environment as it would be built from a copy of os.environ
child_env_from_copy(osenv, allowed_env, kw) ==
    PutInputs(Overlay(osenv, Injected(kw)), kw)

\* the environment _run builds for the child
child_env(osenv, allowed_env, kw) ==
    PutInputs(Overlay([k \in allowed_env \cap DOMAIN osenv |-> osenv[k]],
                      Injected(kw)),
              kw)

\* status as it would be if only exit code 0 counted as success
classify_zero_only(exit_code, allowed_exit_codes, timed_out) ==
    IF timed_out THEN "timeout" ELSE IF exit_code = 0 THEN "ok" ELSE "error"

\* status as it would be if the exit code were looked at first
classify_exit_first(exit_code, allowed_exit_codes, timed_out) ==
    IF exit_code \in allowed_exit_codes THEN "ok"
    ELSE IF timed_out THEN "timeout" ELSE "error"

\* status = "ok" if (exit_ok and not timed_out) else "error";
\* if timed_out: status = "timeout"
classify(exit_code, allowed_exit_codes, timed_out) ==
    LET exit_ok == exit_code \in allowed_exit_codes
        status == IF exit_ok /\ ~timed_out THEN "ok" ELSE "error"
    IN IF timed_out THEN "timeout" ELSE status

NoPayload == [status |-> "", exitCode |-> 0, timedOut |-> FALSE]

\* pc: idle, waiting (in wait_for), expired (TimeoutError caught), killed
\* (in the second communicate), returned, raised
NoCall ==
    [pc |-> "idle", guardrails |-> [allowed_env |-> {}, allowed_exit_codes |-> {}],
     kwargs |-> <<>>, env |-> <<>>, child |-> "none", returncode |-> 0,
     timed_out |-> FALSE, payload |-> NoPayload, log |-> <<>>, error |-> ""]

RunInit ==
    /\ environ \in Environs
    /\ call = NoCall

\* The tool is called: _run builds the command and the environment, logs
\* capability_start and calls create_subprocess_exec, which starts the child
\* or raises (no such program, no such working directory, no permission).
Call(guardrails, kw, started) ==
    /\ call.pc = "idle"
    /\ call' = [NoCall EXCEPT
                   !.pc = IF started THEN "waiting" ELSE "raised",
                   !.guardrails = guardrails,
                   !.kwargs = kw,
                   !.env = child_env(environ, guardrails.allowed_env, kw),
                   !.child = IF started THEN "running" ELSE "none",
                   !.log = <<"capability_start">>,
                   !.error = IF started THEN "" ELSE "OSError"]
    /\ UNCHANGED <<environ, validatorVars, registryVars, utilityVars>>

\* the child process ends by itself, whatever _run is doing
ChildExits(code) ==
    /\ call.child = "running"
    /\ call' = [call EXCEPT !.child = "exited", !.returncode = code]
    /\ UNCHANGED <<environ, validatorVars, registryVars, utilityVars>>

\* max_runtime_seconds pass before communicate() has returned: wait_for
\* cancels it and raises TimeoutError; timed_out = True
Timeout ==
    /\ call.pc = "waiting"
    /\ call' = [call EXCEPT !.pc = "expired", !.timed_out = TRUE]
    /\ UNCHANGED <<environ, validatorVars, registryVars, utilityVars>>

\* proc.kill(): SIGKILL to a running child; for a child that has ended
\* meanwhile it does nothing, or raises ProcessLookupError when the
\* transport has already let go of the process
Kill(lookupError) ==
    /\ call.pc = "expired"
    /\ call' = IF call.child = "running"
               THEN [call EXCEPT !.pc = "killed", !.child = "exited",
                                 !.returncode = SIGKILLED]
               ELSE IF lookupError
               THEN [call EXCEPT !.pc = "raised", !.error = "ProcessLookupError"]
               ELSE [call EXCEPT !.pc = "killed"]
    /\ UNCHANGED <<environ, validatorVars, registryVars, utilityVars>>

\* communicate() returns (the child has ended): _run classifies the exit,
\* builds the payload, logs capability_finish and returns
Return ==
    /\ call.pc \in {"waiting", "killed"}
    /\ call.child = "exited"
    /\ call' = [call EXCEPT
                   !.pc = "returned",
                   !.payload = [status |-> classify(call.returncode,
                                                    call.guardrails.allowed_exit_codes,
                                                    call.timed_out),
                                exitCode |-> call.returncode,
                                timedOut |-> call.timed_out],
                   !.log = Append(call.log, "capability_finish")]
    /\ UNCHANGED <<environ, validatorVars, registryVars, utilityVars>>

\* the tool call is over, with the payload returned to the MCP client or with
\* the exception propagated to the server; the tool can be called again
CallEnds ==
    /\ call.pc \in {"returned", "raised"}
    /\ call' = NoCall
    /\ UNCHANGED <<environ, validatorVars, registryVars, utilityVars>>

RunNext ==
    \/ \E guardrails \in Guardrails, kw \in Kwargs, started \in BOOLEAN :
          Call(guardrails, kw, started)
    \/ \E code \in ChildExitCodes : ChildExits(code)
    \/ Timeout
    \/ \E lookupError \in BOOLEAN : Kill(lookupError)
    \/ Return
    \/ CallEnds

RunIdle ==
    /\ environ = <<>>
    /\ call = NoCall

(***************************************************************************)
(* Properties of the guarded subprocess                                    *)
(***************************************************************************)
Returned == call.pc = "returned"
Statuses == {"ok", "error", "timeout"}

\* C7: when the deadline max_runtime_seconds passed before the child had
\* completed, the payload _run returns has status "timeout", never "ok", also
\* when the exit code of the kill is an allowed exit code, its timedOut is
\* true, and the child has terminated when the payload is returned.
C7_TimeoutIsReported ==
    Returned /\ call.timed_out =>
        /\ call.payload.status = "timeout"
        /\ call.payload.timedOut
        /\ call.child = "exited"

\* a child still running at the deadline was killed, the exit code of the kill
\* is allowed, and the payload is returned
C7_Witness ==
    /\ Returned /\ call.timed_out
    /\ call.returncode = SIGKILLED
    /\ SIGKILLED \in call.guardrails.allowed_exit_codes
    /\ call.payload.status = "timeout"

\* C8: for an invocation that does not time out the returned status is "ok"
\* exactly when the exit code of the child is one of allowed_exit_codes and
\* "error" otherwise; a returned status is always one of ok, error, timeout.
C8_StatusFollowsAllowedExitCodes ==
    Returned =>
        /\ call.payload.status \in Statuses
        /\ ~call.timed_out =>
              /\ call.payload.status = "ok" <=>
                    call.payload.exitCode \in call.guardrails.allowed_exit_codes
              /\ call.payload.status = "error" <=>
                    call.payload.exitCode \notin call.guardrails.allowed_exit_codes
              /\ call.payload.exitCode = call.returncode

\* a child that ended in time with an allowed exit code other than 0
C8_Witness ==
    /\ Returned /\ ~call.timed_out
    /\ call.returncode = 2
    /\ 2 \in call.guardrails.allowed_exit_codes
    /\ call.payload.status = "ok"

\* two dispatcher environments agree on the variables of allowed_env
AgreeOn(e1, e2, names) ==
    \A k \in names :
        /\ k \in DOMAIN e1 <=> k \in DOMAIN e2
        /\ k \in DOMAIN e1 => e1[k] = e2[k]

\* the INPUT_ variables derived from the arguments
InputKeys(kw) == {<<"INPUT_">> \o _to_upper_snake(kw[i].name) : i \in DOMAIN kw}

\* C9: the environment of the child holds no variable of the dispatcher's
\* environment whose name is outside allowed_env: any dispatcher environment
\* that agrees with the actual one on the allow-listed variables gives the
\* same invocation the same child environment, and every key of the child
\* environment is an allow-listed variable with the dispatcher's value, one of
\* the fixed injected variables, or an INPUT_ variable derived from the
\* arguments.
C9_OnlyAllowListedEnvironment ==
    call.pc # "idle" =>
        /\ \A e2 \in Environs :
              AgreeOn(environ, e2, call.guardrails.allowed_env) =>
                 child_env(e2, call.guardrails.allowed_env, call.kwargs) = call.env
        /\ \A k \in DOMAIN call.env :
              \/ k \in DOMAIN Injected(call.kwargs)
              \/ k \in InputKeys(call.kwargs)
              \/ /\ k \in call.guardrails.allowed_env
                 /\ k \in DOMAIN environ
                 /\ call.env[k] = environ[k]

\* the dispatcher holds an allow-listed and a not allow-listed variable, and
\* the child is started with the first and without the second
C9_Witness ==
    /\ call.pc = "waiting"
    /\ {HOME, SECRET, INPUT_AB} \subseteq DOMAIN environ
    /\ call.guardrails.allowed_env = {HOME}
    /\ HOME \in DOMAIN call.env /\ call.env[HOME] = environ[HOME]
    /\ SECRET \notin DOMAIN call.env
    /\ INPUT_AB \notin DOMAIN call.env
    /\ call.kwargs # <<>>

\* C19 (as claimed): every invocation emits a capability_start event and,
\* after it, exactly one capability_finish event, on every path through
\* _run (normal exit, non-allowed exit code, timeout, failure to launch the
\* child): an invocation that has ended has logged start, then finish once.
C19_StartThenOneFinish ==
    call.pc \in {"returned", "raised"} =>
        call.log = <<"capability_start", "capability_finish">>

\* the INPUT_ variables of an environment
InputVariables(env) == {k \in DOMAIN env : Head(k) = "INPUT_"}

\* the variable _run assigns for the i-th argument
InputKey(kw, i) == <<"INPUT_">> \o _to_upper_snake(kw[i].name)

\* the dispatcher hands none of its own INPUT_ variables to the child
NoInheritedInput ==
    InputVariables([k \in call.guardrails.allowed_env \cap DOMAIN environ |->
                       environ[k]]) = {}

\* C21 (as claimed): an invocation passes one INPUT_<NAME> variable per
\* argument: the number of INPUT_ variables of the child environment is the
\* number of keyword arguments, and each argument's variable holds the
\* string form of that argument's value (arguments with distinct names never
\* get the same variable).  Stated for invocations in which no INPUT_
\* variable comes from the dispatcher's own environment.
C21_OneInputVariablePerArgument ==
    (call.pc # "idle" /\ NoInheritedInput) =>
        /\ Cardinality(InputVariables(call.env)) = Len(call.kwargs)
        /\ \A i \in DOMAIN call.kwargs :
              /\ InputKey(call.kwargs, i) \in DOMAIN call.env
              /\ call.env[InputKey(call.kwargs, i)] = Str(call.kwargs[i].value)

\* C10: an invocation never raises to the dispatcher because of the guarded
\* subprocess: it never ends otherwise than by returning a payload, whether
\* the child exits normally, fails to start, exceeds the timeout or exits at
\* the moment the timeout fires.
C10_RunNeverRaises == call.pc # "raised"

(***************************************************************************)
(* Dispatcher: the argument acceptor                                       *)
(* A capability's inputs are a JSON schema or nothing.  Of a schema the    *)
(* acceptor reads "properties" (a dict or not), "required" and             *)
(* "additionalProperties" (absent, false, true or a schema object).        *)
(***************************************************************************)
ArgumentNames == {"path", "mode", "depth"}
NoProperties == [given |-> FALSE, names |-> {}]
Schemas ==
    [declared : {TRUE},
     properties : {NoProperties} \cup [given : {TRUE}, names : SUBSET ArgumentNames],
     required : SUBSET ArgumentNames,
     additionalProperties : {"absent", "false", "true", "schema"}]
NoSchema ==
    [declared |-> FALSE, properties |-> NoProperties, required |-> {},
     additionalProperties |-> "absent"]
Inputs == Schemas \cup {NoSchema}

\* _normalize_schema(cap.inputs): {"type": "object"} for anything but a dict
_normalize_schema(schema) == IF schema.declared THEN schema ELSE NoSchema

\* _arg_model_for_capability(cap_id, schema): the fields of the model (a
\* field is required when its default is ...) and its `extra` behaviour
_arg_model_for_capability(schema) ==
    LET properties == IF schema.properties.given THEN schema.properties.names ELSE {}
    IN [fields |-> [prop_name \in properties |->
                       [required |-> prop_name \in schema.required]],
        extra |-> IF schema.additionalProperties = "false" THEN "forbid" ELSE "allow"]

\* arg_model.model_validate(arguments): a required field must be given, and
\* a name that is no field is an error when extra is "forbid"
model_validate(arg_model, supplied) ==
    /\ \A f \in DOMAIN arg_model.fields :
          arg_model.fields[f].required => f \in supplied
    /\ arg_model.extra = "forbid" => supplied \subseteq DOMAIN arg_model.fields

AcceptorIdle ==
    [pc |-> "idle", inputs |-> NoSchema, supplied |-> {}, accepted |-> FALSE]

AcceptorInit == acceptor = AcceptorIdle

\* a tool registered for a capability with these inputs is called with
\* these argument names: the metadata built by
\* _func_metadata_for_capability validates them
Validate(inputs, supplied) ==
    /\ acceptor.pc = "idle"
    /\ acceptor' =
          [pc |-> "validated", inputs |-> inputs, supplied |-> supplied,
           accepted |-> model_validate(
                            _arg_model_for_capability(_normalize_schema(inputs)),
                            supplied)]
    /\ UNCHANGED <<validatorVars, registryVars, runVars, health, agents, race>>

\* the call is over
Validated ==
    /\ acceptor.pc = "validated"
    /\ acceptor' = AcceptorIdle
    /\ UNCHANGED <<validatorVars, registryVars, runVars, health, agents, race>>

AcceptorNext ==
    \/ \E inputs \in Inputs, supplied \in SUBSET ArgumentNames :
          Validate(inputs, supplied)
    \/ Validated

\* C11 (as claimed): the acceptor accepts a set of supplied argument names
\* exactly when every name listed in "required" is supplied and, when
\* additionalProperties is false, every supplied name is a declared
\* property; with no declared schema every argument set is accepted.
C11_AcceptsExactlyPerSchema ==
    acceptor.pc = "validated" =>
        LET schema == acceptor.inputs
            declared == IF schema.properties.given THEN schema.properties.names ELSE {}
        IN /\ ~schema.declared => acceptor.accepted
           /\ schema.declared =>
                 (acceptor.accepted <=>
                     /\ schema.required \subseteq acceptor.supplied
                     /\ schema.additionalProperties = "false" =>
                           acceptor.supplied \subseteq declared)

(***************************************************************************)
(* Workspace health reporter                                               *)
(* What `git status --porcelain=2 --branch` prints for a repository: the   *)
(* number of change lines (lines not starting with "#") and the            *)
(* "# branch.ab" line, which is absent (no upstream), well formed          *)
(* ("+<ahead> -<behind>"), has a payload that does not split in two        *)
(* ("tokens"), or has a second token that is no integer ("behind").        *)
(***************************************************************************)
NoAb == [form |-> "absent", ahead |-> 0, behind |-> 0]
AbLines ==
    {NoAb} \cup
    [form : {"ok"}, ahead : 0..MaxCount, behind : 0..MaxCount] \cup
    [form : {"tokens"}, ahead : {0}, behind : {0}] \cup
    [form : {"behind"}, ahead : 0..MaxCount, behind : {0}]
StatusOutputs == [changes : 0..MaxChanges, ab : AbLines]

\* parse_status(output): int("+n") is n and int("-n") is -n; a ValueError
\* from split() leaves both counts, one from int(behind_str) leaves ahead set
parse_status(output) ==
    [dirty |-> output.changes,
     ahead |-> IF output.ab.form \in {"ok", "behind"} THEN output.ab.ahead ELSE 0,
     behind |-> IF output.ab.form = "ok" THEN 0 - output.ab.behind ELSE 0]

\* collect_repo_status(name, path): the two queries and the RepoStatus
collect_repo_status(name, output) ==
    LET data == parse_status(output)
    IN [name |-> name, clean |-> data.dirty = 0, ahead |-> data.ahead,
        behind |-> data.behind, dirty_lines |-> data.dirty]

QueryCommands(name) ==
    <<[cmd |-> "status", cwd |-> name], [cmd |-> "rev-parse", cwd |-> name]>>

Part(what, n) == [what |-> what, n |-> n]
Clean == <<Part("clean", 0)>>

\* summary() as it would be if only local changes and unpushed commits counted
summary_without_behind(status) ==
    IF status.clean /\ status.ahead = 0
    THEN Clean
    ELSE (IF ~status.clean THEN <<Part("dirty", 0)>> ELSE <<>>)
         \o (IF status.ahead # 0 THEN <<Part("ahead", status.ahead)>> ELSE <<>>)

\* RepoStatus.summary(): "clean", or the parts joined by ", "
summary(status) ==
    IF status.clean /\ status.ahead = 0 /\ status.behind = 0
    THEN Clean
    ELSE LET parts ==
                (IF ~status.clean THEN <<Part("dirty", 0)>> ELSE <<>>)
                \o (IF status.ahead # 0 THEN <<Part("ahead", status.ahead)>> ELSE <<>>)
                \o (IF status.behind # 0 THEN <<Part("behind", status.behind)>> ELSE <<>>)
         IN IF parts = <<>> THEN Clean ELSE parts

\* the workspace: the root repository and the sub-repositories .gitmodules
\* declares, each with whether its path exists
ModuleNames == <<"n00-cortex", "n00-frontiers", "n00t">>
ModuleOutputs ==
    {[changes |-> 0, ab |-> NoAb],
     [changes |-> 1, ab |-> [form |-> "ok", ahead |-> 1, behind |-> 0]]}
Workspaces ==
    UNION {[root : StatusOutputs,
            modules : [1..n -> [exists : BOOLEAN, output : ModuleOutputs]]] :
              n \in 0..MaxModules}

ModuleName(i) == ModuleNames[((i - 1) % 3) + 1]

\* autofix_workspace(root): submodule sync and update --init; when the
\* update works the declared paths exist afterwards
AutofixCommands ==
    <<[cmd |-> "submodule sync", cwd |-> "workspace"],
      [cmd |-> "submodule update --init", cwd |-> "workspace"]>>

autofix_workspace(ws, updated) ==
    IF updated
    THEN [ws EXCEPT !.modules = [i \in DOMAIN ws.modules |->
                                    [ws.modules[i] EXCEPT !.exists = TRUE]]]
    ELSE ws

\* the loop of build_report over the declared modules from position i
RECURSIVE CollectModules(_, _)
CollectModules(modules, i) ==
    IF i > Len(modules) THEN [commands |-> <<>>, statuses |-> <<>>]
    ELSE LET rest == CollectModules(modules, i + 1)
         IN IF ~modules[i].exists THEN rest
            ELSE [commands |-> QueryCommands(ModuleName(i)) \o rest.commands,
                  statuses |-> <<collect_repo_status(ModuleName(i), modules[i].output)>>
                               \o rest.statuses]

\* build_report as it would be if the repair were not behind the flag
build_report_always_fixes(ws, autofix, updated) ==
    LET fixed == autofix_workspace(ws, updated)
        subs == CollectModules(fixed.modules, 1)
    IN [workspace |-> fixed,
        commands |-> AutofixCommands \o QueryCommands("workspace") \o subs.commands,
        root |-> collect_repo_status("workspace", fixed.root),
        submodules |-> subs.statuses,
        raised |-> FALSE]

\* build_report(args): the workspace afterwards, the commands issued in
\* order, the report, and whether an exception left it
build_report(ws, autofix, updated) ==
    LET fixed == IF autofix THEN autofix_workspace(ws, updated) ELSE ws
        subs == CollectModules(fixed.modules, 1)
    IN [workspace |-> fixed,
        commands |-> (IF autofix THEN AutofixCommands ELSE <<>>)
                     \o QueryCommands("workspace") \o subs.commands,
        root |-> collect_repo_status("workspace", fixed.root),
        submodules |-> subs.statuses,
        raised |-> FALSE]

\* emit(report, json_mode): the workspace line and the lines of the
\* sub-repositories needing attention
emit(report) ==
    [workspace |-> summary(report.root),
     attention |->
        LET dirty_subs == SelectSeq(report.submodules,
                              LAMBDA repo : ~repo.clean \/ repo.ahead # 0 \/ repo.behind # 0)
        IN [i \in DOMAIN dirty_subs |->
               [name |-> dirty_subs[i].name, summary |-> summary(dirty_subs[i])]],
     total |-> Len(report.submodules)]

NoReport ==
    [workspace |-> <<>>, commands |-> <<>>,
     root |-> collect_repo_status("workspace", [changes |-> 0, ab |-> NoAb]),
     submodules |-> <<>>, raised |-> FALSE]
NoOutput == [workspace |-> <<>>, attention |-> <<>>, total |-> 0]

HealthInit ==
    \E ws \in Workspaces :
        health = [pc |-> "idle", workspace |-> ws, before |-> ws, autofix |-> FALSE,
                  report |-> NoReport, printed |-> NoOutput, exitCode |-> 0]

\* python workspace-health.py [--autofix] [--json], start to exit
Report(autofix, updated) ==
    /\ health.pc = "idle"
    /\ LET report == build_report(health.workspace, autofix, updated)
       IN health' = [pc |-> "reported", workspace |-> report.workspace,
                     before |-> health.workspace, autofix |-> autofix,
                     report |-> [report EXCEPT !.workspace = <<>>],
                     printed |-> IF report.raised THEN NoOutput ELSE emit(report),
                     exitCode |-> IF report.raised THEN 1 ELSE 0]
    /\ UNCHANGED <<validatorVars, registryVars, runVars, acceptor, agents, race>>

\* the process is gone
Reported ==
    /\ health.pc = "reported"
    /\ health' = [health EXCEPT !.pc = "idle", !.before = health.workspace,
                                !.autofix = FALSE, !.report = NoReport,
                                !.printed = NoOutput, !.exitCode = 0]
    /\ UNCHANGED <<validatorVars, registryVars, runVars, acceptor, agents, race>>

HealthNext ==
    \/ \E autofix \in BOOLEAN, updated \in BOOLEAN : Report(autofix, updated)
    \/ Reported

HealthIdle ==
    health = [pc |-> "idle", workspace |-> <<>>, before |-> <<>>, autofix |-> FALSE,
              report |-> NoReport, printed |-> NoOutput, exitCode |-> 0]

(***************************************************************************)
(* Properties of the workspace health reporter                             *)
(***************************************************************************)
HealthReported == health.pc = "reported" /\ ~health.report.raised

Names(parts) == {parts[i].what : i \in DOMAIN parts}

\* what the summary of a repository must be, by the claim: "clean" exactly
\* for no change lines and zero counts, else every deviation present named
SummaryAsClaimed(changes, status, text) ==
    /\ text = Clean <=> (changes = 0 /\ status.ahead = 0 /\ status.behind = 0)
    /\ text # Clean =>
          /\ "clean" \notin Names(text)
          /\ "dirty" \in Names(text) <=> changes # 0
          /\ "ahead" \in Names(text) <=> status.ahead # 0
          /\ "behind" \in Names(text) <=> status.behind # 0

\* C13: RepoStatus.summary() is "clean" if and only if the repository has
\* no change lines and its ahead and behind counts are both zero; otherwise
\* the summary names each deviation present (dirty, ahead, behind) and is
\* not "clean".  Checked on the root repository and on every sub-repository
\* of a report.
C13_CleanIffNoDeviation ==
    HealthReported =>
        /\ SummaryAsClaimed(health.workspace.root.changes, health.report.root,
                            health.printed.workspace)
        /\ \A i \in DOMAIN health.report.submodules :
              LET repo == health.report.submodules[i]
              IN SummaryAsClaimed(repo.dirty_lines, repo, summary(repo))

\* a repository without change lines that is only behind its upstream
C13_Witness ==
    /\ HealthReported
    /\ health.workspace.root.changes = 0
    /\ health.report.root.ahead = 0
    /\ health.report.root.behind # 0
    /\ health.printed.workspace # Clean

\* C22 (as claimed): for a line "# branch.ab +A -B" parse_status reports
\* ahead = A and behind = B, both not negative, and a repository that is B
\* commits behind is summarised with the part "behind -B"; a malformed
\* branch.ab line leaves both counts at 0.  Read on the root repository of
\* a report.
C22_AheadBehindCounts ==
    HealthReported =>
        LET ab == health.workspace.root.ab
            root == health.report.root
        IN /\ root.ahead >= 0 /\ root.behind >= 0
           /\ ab.form = "ok" =>
                 /\ root.ahead = ab.ahead
                 /\ root.behind = ab.behind
                 /\ ab.behind > 0 =>
                       \E i \in DOMAIN health.printed.workspace :
                           health.printed.workspace[i] = Part("behind", ab.behind)
           /\ ab.form \in {"tokens", "behind"} =>
                 root.ahead = 0 /\ root.behind = 0

StateChanging == {"submodule sync", "submodule update --init"}
ReadOnly == {"status", "rev-parse"}
CommandsIssued == {health.report.commands[i] : i \in DOMAIN health.report.commands}
MissingModules ==
    {ModuleName(i) : i \in {j \in DOMAIN health.before.modules :
                               ~health.before.modules[j].exists}}

\* C14: a state-changing version-control command is run only when --autofix
\* is given; without it every command issued is a read-only query, the
\* workspace is left as it was, and a declared sub-repository whose path
\* does not exist is skipped: no command is issued for it and no error is
\* raised.
C14_ReadOnlyWithoutAutofix ==
    health.pc = "reported" =>
        /\ (\E c \in CommandsIssued : c.cmd \in StateChanging) => health.autofix
        /\ ~health.autofix =>
              /\ \A c \in CommandsIssued : c.cmd \in ReadOnly
              /\ health.workspace = health.before
              /\ \A c \in CommandsIssued : c.cwd \notin MissingModules
              /\ ~health.report.raised
              /\ health.exitCode = 0

\* a report without --autofix over a workspace with a declared
\* sub-repository that does not exist and one that does
C14_Witness ==
    /\ health.pc = "reported" /\ ~health.autofix
    /\ MissingModules # {}
    /\ Len(health.report.submodules) > 0
    /\ ~health.report.raised

(***************************************************************************)
(* Agent foundry: n00man scaffold                                          *)
(***************************************************************************)
AgentIds == {"watcher-01", "builder"}
NotGiven == <<"None">>

\* what --capabilities points at: nothing, a bare list, an object with a
\* "capabilities" list, or JSON of another shape
OneCapability == [id |-> "watch", name |-> "Watch", description |-> "watches"]
CapabilityFiles ==
    {[shape |-> "none", list |-> <<>>],
     [shape |-> "list", list |-> <<>>],
     [shape |-> "list", list |-> <<OneCapability>>],
     [shape |-> "object", list |-> <<OneCapability>>],
     [shape |-> "other", list |-> <<>>]}

\* the arguments of `n00man scaffold`; --title, --tag and --guardrail are
\* None when not given
ScaffoldArgs ==
    [name : AgentIds, title : {NotGiven, <<"Title">>}, role : {"monitor"},
     description : {"watches build queue"},
     tag : {NotGiven, <<"ops">>}, guardrail : {NotGiven, <<"read-only">>},
     capabilities : CapabilityFiles]

OrElse(value, default) == IF value = NotGiven THEN default ELSE value

\* _load_capabilities(path): the list, or SystemExit
_load_capabilities(file) ==
    IF file.shape = "none" THEN [ok |-> TRUE, list |-> <<>>]
    ELSE IF file.shape \in {"list", "object"} THEN [ok |-> TRUE, list |-> file.list]
    ELSE [ok |-> FALSE, list |-> <<>>]

\* the payload as it would be if the title, when given, became the identifier
payload_keyed_by_title(args) ==
    [agent_id |-> OrElse(args.title, <<args.name>>),
     name |-> OrElse(args.title, <<args.name>>),
     role |-> args.role,
     description |-> args.description,
     tags |-> OrElse(args.tag, <<>>),
     guardrails |-> OrElse(args.guardrail, <<>>),
     capabilities |-> _load_capabilities(args.capabilities).list]

\* the payload scaffold_agent hands to the executor
payload(args) ==
    [agent_id |-> <<args.name>>,
     name |-> OrElse(args.title, <<args.name>>),
     role |-> args.role,
     description |-> args.description,
     tags |-> OrElse(args.tag, <<>>),
     guardrails |-> OrElse(args.guardrail, <<>>),
     capabilities |-> _load_capabilities(args.capabilities).list]

\* AgentProfile(...).to_dict(): the fields given and the dataclass defaults
AgentProfile(agent_id, name, role, description, capabilities, guardrails, tags) ==
    [agent_id |-> agent_id, name |-> name, role |-> role,
     description |-> description, version |-> "0.1.0", owner |-> "platform-ops",
     status |-> "draft", capabilities |-> capabilities,
     guardrails |-> guardrails, tags |-> tags]

\* build_agent_profile(**payload): the profile of the payload
build_agent_profile(p) ==
    AgentProfile(p.agent_id, p.name, p.role, p.description, p.capabilities,
                 p.guardrails, p.tags)

\* AgentRegistry: the entries of agent-registry.json in order; an entry
\* with the profile's identifier is replaced, else the profile is appended
IndexOf(entries, agent_id) ==
    LET at == {i \in DOMAIN entries : entries[i].agent_id = agent_id}
    IN IF at = {} THEN 0 ELSE CHOOSE i \in at : \A j \in at : i <= j

upsert(entries, profile) ==
    LET i == IndexOf(entries, profile.agent_id)
    IN IF i = 0 THEN Append(entries, profile)
       ELSE [entries EXCEPT ![i] = profile]

\* AgentFoundryExecutor.execute(**payload): profile built, files generated,
\* registry upserted
execute(entries, p) == upsert(entries, build_agent_profile(p))

NoScaffold ==
    [agent_id |-> <<>>, bare |-> FALSE, ok |-> FALSE, before |-> <<>>,
     name |-> <<>>]

AgentsInit ==
    agents = [pc |-> "idle", registry |-> <<>>, scaffolded |-> {}, last |-> NoScaffold]

\* n00man scaffold --name ... : main() to its return
Scaffold(args) ==
    /\ agents.pc = "idle"
    /\ LET caps == _load_capabilities(args.capabilities)
           p == payload(args)
       IN agents' =
             [pc |-> "done",
              registry |-> IF caps.ok THEN execute(agents.registry, p)
                           ELSE agents.registry,
              scaffolded |-> IF caps.ok THEN agents.scaffolded \cup {<<args.name>>}
                             ELSE agents.scaffolded,
              last |-> [agent_id |-> <<args.name>>,
                        bare |-> /\ args.tag = NotGiven /\ args.guardrail = NotGiven
                                 /\ args.capabilities.shape = "none",
                        ok |-> caps.ok, before |-> agents.registry,
                        name |-> OrElse(args.title, <<args.name>>)]]
    /\ UNCHANGED <<validatorVars, registryVars, runVars, acceptor, health, race>>

\* the process is gone
Scaffolded ==
    /\ agents.pc = "done"
    /\ agents' = [agents EXCEPT !.pc = "idle", !.last = NoScaffold]
    /\ UNCHANGED <<validatorVars, registryVars, runVars, acceptor, health, race>>

AgentsNext ==
    \/ \E args \in ScaffoldArgs : Scaffold(args)
    \/ Scaffolded

AgentsIdle == AgentsInit

\* the identifiers of the registry's entries
EntryIds(entries) == {entries[i].agent_id : i \in DOMAIN entries}

\* C15: after any sequence of scaffold operations the registry holds exactly
\* one entry per distinct agent identifier scaffolded; scaffolding an
\* identifier already present updates that entry and leaves the number of
\* entries unchanged; a first scaffold with no tags, guardrails or
\* capabilities yields an entry with status "draft" and no capabilities.
C15_OneEntryPerAgent ==
    /\ EntryIds(agents.registry) = agents.scaffolded
    /\ Len(agents.registry) = Cardinality(agents.scaffolded)
    /\ (agents.pc = "done" /\ agents.last.ok) =>
          LET i == IndexOf(agents.registry, agents.last.agent_id)
              was == IndexOf(agents.last.before, agents.last.agent_id)
          IN /\ i # 0
             /\ agents.registry[i].name = agents.last.name
             /\ was # 0 => Len(agents.registry) = Len(agents.last.before)
             /\ (was = 0 /\ agents.last.bare) =>
                   /\ agents.registry[i].status = "draft"
                   /\ agents.registry[i].capabilities = <<>>

\* an identifier already in the registry under another title is scaffolded
\* again, with another agent registered
C15_Witness ==
    /\ agents.pc = "done" /\ agents.last.ok
    /\ Len(agents.registry) = 2
    /\ LET was == IndexOf(agents.last.before, agents.last.agent_id)
       IN /\ was # 0
          /\ agents.last.before[was].name # agents.last.name

(***************************************************************************)
(* Validator: two invocations at once                                      *)
(* main() reads the document once (load_state), and each save_state        *)
(* writes a whole document derived from that read.  Here main() is taken   *)
(* step by step for two processes on one state file, within one hour.      *)
(***************************************************************************)
Procs == {1, 2}

\* what the probe meets in these runs, and the override entries
RaceProbeOutcomes == {o \in ProbeOutcomes : o.uv /\ o.reqs /\ o.failAt = 0}
RaceOverrides == {ov \in Overrides : ov.version \in {NoVersion, <<3, 11>>} /\ ov.allow_lower = (ov.version # NoVersion)}

NoProc ==
    [pc |-> "idle", force |-> FALSE, state |-> EmptyState, hashes |-> NoDigests,
     stale |-> FALSE]
NoWrite ==
    [by |-> 0, success |-> FALSE, stale |-> FALSE, read |-> NoHashes,
     replaced |-> NoHashes]

RaceInit ==
    race = [file |-> EmptyState, files |-> [key \in WATCH_TARGETS |-> 1],
            proc |-> [p \in Procs |-> NoProc], write |-> NoWrite]

\* the other processes that have read the document and not yet exited hold
\* a read that is older than the digests a successful run persists now
Staled(procs, writer) ==
    [q \in Procs |->
        IF q # writer /\ procs[q].pc \in {"loaded", "probed", "validating"}
        THEN [procs[q] EXCEPT !.stale = TRUE] ELSE procs[q]]

\* main(), lines 352-354: ensure_prereqs() and state = load_state().  The
\* two processes are alike, so the one that starts while none is running is
\* called process 1.
RaceLoad(p, force) ==
    /\ race.proc[p].pc = "idle"
    /\ p = 1 \/ race.proc[1].pc # "idle"
    /\ ensure_prereqs(race.files)
    /\ race' = [race EXCEPT
                   !.proc[p] = [pc |-> "loaded", force |-> force,
                                state |-> load_state(race.file),
                                hashes |-> NoDigests, stale |-> FALSE]]
    /\ UNCHANGED <<validatorVars, registryVars, runVars, acceptor, health, agents>>

\* main(), line 355: maybe_probe_python_alignment(state), which saves the
\* whole document it was given when the probe ran
RaceProbe(p, ov) ==
    /\ race.proc[p].pc = "loaded"
    /\ \E r \in {maybe_probe_python_alignment(
                     race.proc[p].state, CanonicalOf(race.files["toolchainManifest"]),
                     ov, 0, o, FALSE) : o \in RaceProbeOutcomes} :
          race' = [race EXCEPT
                      !.proc[p].pc = "probed",
                      !.proc[p].state = r.state,
                      !.file = IF r.saved THEN r.state ELSE @,
                      !.write = IF r.saved
                                THEN [by |-> p, success |-> FALSE,
                                      stale |-> race.proc[p].stale,
                                      read |-> race.proc[p].state.hashes,
                                      replaced |-> race.file.hashes]
                                ELSE @]
    /\ UNCHANGED <<validatorVars, registryVars, runVars, acceptor, health, agents>>

\* main(), lines 356-378: the digests, needs_run, and the skip
RaceDecide(p) ==
    /\ race.proc[p].pc = "probed"
    /\ LET hashes == determine_hashes(race.files)
           changed == changed_targets(hashes, race.proc[p].state)
           needs == needs_run(changed, race.proc[p].force, race.proc[p].state)
       IN race' = [race EXCEPT
                      !.proc[p].hashes = hashes,
                      !.proc[p].pc = IF ~needs /\ ~race.proc[p].force
                                     THEN "done" ELSE "validating"]
    /\ UNCHANGED <<validatorVars, registryVars, runVars, acceptor, health, agents>>

\* run_validation: the command has exited with rc; the document is saved
RaceValidate(p, rc) ==
    /\ race.proc[p].pc = "validating"
    /\ race' = [race EXCEPT
                   !.file = run_validation(race.proc[p].hashes, race.proc[p].state, rc),
                   !.proc = IF rc = 0
                            THEN [Staled(race.proc, p) EXCEPT ![p].pc = "done"]
                            ELSE [race.proc EXCEPT ![p].pc = "done"],
                   !.write = [by |-> p, success |-> rc = 0,
                              stale |-> race.proc[p].stale,
                              read |-> race.proc[p].state.hashes,
                              replaced |-> race.file.hashes]]
    /\ UNCHANGED <<validatorVars, registryVars, runVars, acceptor, health, agents>>

\* the process exits
RaceExit(p) ==
    /\ race.proc[p].pc = "done"
    /\ race' = [race EXCEPT !.proc[p] = NoProc]
    /\ UNCHANGED <<validatorVars, registryVars, runVars, acceptor, health, agents>>

\* somebody edits the toolchain manifest (each edit gives new content)
RaceEdit(content) ==
    /\ race.files["toolchainManifest"] < content
    /\ race' = [race EXCEPT !.files["toolchainManifest"] = content]
    /\ UNCHANGED <<validatorVars, registryVars, runVars, acceptor, health, agents>>

RaceNext ==
    \/ \E p \in Procs, force \in BOOLEAN : RaceLoad(p, force)
    \/ \E p \in Procs, ov \in RaceOverrides : RaceProbe(p, ov)
    \/ \E p \in Procs : RaceDecide(p)
    \/ \E p \in Procs, rc \in ExitCodes : RaceValidate(p, rc)
    \/ \E p \in Procs : RaceExit(p)
    \/ \E content \in 1..MaxManifest : RaceEdit(content)

RaceIdle == RaceInit

\* C20: two invocations running at once on one state file can interleave so
\* that one silently overwrites the other's result.  Every write of the
\* document is a whole document made from the writer's own earlier read,
\* with no check of what is on disk: whenever a process whose read predates
\* the digests persisted by the other's successful run writes without having
\* succeeded itself (the probe's save, or a failed run), the digests on disk
\* afterwards are the older ones of its read; the witness is the interleaving
\* in which they differ from the digests that were persisted.
C20_StaleWriteRestoresOldDigests ==
    /\ (race.write.by # 0 /\ ~race.write.success) =>
          race.file.hashes = race.write.read
    /\ (race.write.by # 0 /\ race.write.success) =>
          race.file.hashes.present

\* the digests a successful run persisted have been replaced by the older
\* digests of the other invocation's read
C20_Witness ==
    /\ race.write.by # 0
    /\ race.write.stale /\ ~race.write.success
    /\ race.write.replaced.present
    /\ race.file.hashes = race.write.read
    /\ race.file.hashes # race.write.replaced
    /\ race.write.replaced.map = determine_hashes(race.files)

(***************************************************************************)
(* Specifications                                                          *)
(***************************************************************************)
UtilityIdle ==
    /\ acceptor = AcceptorIdle
    /\ HealthIdle
    /\ AgentsIdle
    /\ RaceIdle

\* the validator, one invocation after another
Init == ValidatorInit /\ RegistryIdle /\ RunIdle /\ UtilityIdle
Next == ValidatorNext
Spec == Init /\ [][Next]_vars

\* the dispatcher's registry and tool registration
InitRegistry == RegistryInit /\ ValidatorInit /\ RunIdle /\ UtilityIdle
NextRegistry == RegistryNext
SpecRegistry == InitRegistry /\ [][NextRegistry]_vars

\* the dispatcher's guarded subprocess
InitRun == RunInit /\ ValidatorInit /\ RegistryIdle /\ UtilityIdle
NextRun == RunNext
SpecRun == InitRun /\ [][NextRun]_vars

\* the dispatcher's argument acceptor
InitAcceptor ==
    /\ AcceptorInit /\ HealthIdle /\ AgentsIdle /\ RaceIdle
    /\ ValidatorInit /\ RegistryIdle /\ RunIdle
NextAcceptor == AcceptorNext
SpecAcceptor == InitAcceptor /\ [][NextAcceptor]_vars

\* the workspace health reporter
InitHealth ==
    /\ HealthInit /\ acceptor = AcceptorIdle /\ AgentsIdle /\ RaceIdle
    /\ ValidatorInit /\ RegistryIdle /\ RunIdle
NextHealth == HealthNext
SpecHealth == InitHealth /\ [][NextHealth]_vars

\* the agent foundry's scaffold command
InitAgents ==
    /\ AgentsInit /\ acceptor = AcceptorIdle /\ HealthIdle /\ RaceIdle
    /\ ValidatorInit /\ RegistryIdle /\ RunIdle
NextAgents == AgentsNext
SpecAgents == InitAgents /\ [][NextAgents]_vars

\* two validator invocations at once
InitRace ==
    /\ RaceInit /\ acceptor = AcceptorIdle /\ HealthIdle /\ AgentsIdle
    /\ ValidatorInit /\ RegistryIdle /\ RunIdle
NextRace == RaceNext
SpecRace == InitRace /\ [][NextRace]_vars

====
